---- MODULE Spec2Model ----
(***************************************************************************)
(* A model of gollama's concurrency core:                                  *)
(*   - internal/queue    JobQueue   (worker pool with per-job retry)       *)
(*   - pkg/ratelimiter   RateLimiter (token bucket)                        *)
(*   - internal/scaling  AutoScaler (capacity control loop)                *)
(* Each component has its own specification (SpecJQ, SpecRL, SpecAS,       *)
(* SpecASC); the variables of the other components stay parked.            *)
(***************************************************************************)
EXTENDS Integers, Sequences, FiniteSets, TLC

VARIABLES
    \* ---- internal/queue/job_queue.go : JobQueue ----
    workerCount,   \* jq.workerCount
    started,       \* StartWorkers has run
    jobsClosed,    \* close(jq.jobs) has happened
    jqWg,          \* counter of jq.wg
    results,       \* jq.results : job id -> Absent | Nil | error
    wpc,           \* position of each worker goroutine
    wjob,          \* the Job a worker holds : [id, retries]
    wattempt,      \* the worker's loop variable attempt
    werr,          \* the worker's local err
    spc,           \* position of each submitter goroutine: idle, or where in AddJob
    sjob,          \* the Job a submitter is sending
    sAfterClose,   \* ghost: the submitter's current AddJob was called on a closed queue
    mpc,           \* position of the goroutine that calls Wait
    jqPanic,       \* the runtime panic that ended the program, or NoPanic
    addCount,      \* ghost: number of AddJob calls made (ids are 1..addCount)
    ninv,          \* ghost: invocations of the task of the job a worker holds
    firstNil,      \* ghost: index of the first of them that returned nil (0: none)
    waitCalls,     \* ghost: number of Wait calls made
    waitReturns,   \* ghost: number of Wait calls that returned
    cleanWait,     \* ghost: the first Wait was called after all AddJob calls returned
    rateLimit,     \* jq.rateLimit, in ticks
    sleepLeft,     \* ticks left of a worker's time.Sleep(jq.rateLimit)
    sinceDone,     \* ghost: ticks since the last result was recorded, up to rateLimit
    npause,        \* ghost: rate-limit pauses a worker began for the job it holds
    taken,         \* ghost: how many times each job was received from jq.jobs
    written,       \* ghost: how many times each job's results entry was written
    \* ---- pkg/ratelimiter/ratelimiter.go : RateLimiter ----
    rate,          \* rl.rate: tokens added per interval
    capacity,      \* rl.capacity
    tokens,        \* rl.tokens, in units of 1/Interval token
    lastRefillTime,\* rl.lastRefillTime
    mu,            \* rl.mu: the caller holding it, or 0
    now,           \* the clock time.Now() reads, in ticks
    cpc,           \* position of each calling goroutine
    cop,           \* the method it is in: AllowN, Available or WaitN
    cn,            \* the argument n of its call, in units of 1/Interval token
    ctxDone,       \* the ctx of its WaitN call is canceled or past its deadline
    rlCalls,       \* ghost: number of calls made on the limiter
    granted,       \* ghost: sum of n over the AllowN calls that returned true
    fresh,         \* ghost: only Allow() calls so far and no time elapsed since New
    allowLog,      \* ghost: while fresh, the results of the Allow() calls, in order
    crefilled,     \* ghost: rl.tokens as the latest refill() of a call in progress left it
    cstart,        \* ghost: the value of granted when a call in progress began
    cret,          \* ghost: what a goroutine's last call returned
    \* ---- internal/scaling/autoscaler.go : AutoScaler ----
    minWorkers,    \* as.minWorkers
    maxWorkers,    \* as.maxWorkers, the capacity of as.workerPool
    pool,          \* len(as.workerPool)
    stopClosed,    \* close(as.stopChan) has happened
    asWg,          \* counter of as.wg
    gpc,           \* position of goroutine 0 (monitorLoad) and of the goroutines
                   \* 1..NumScalers that call scaleUp / scaleDown themselves
    gtimer,        \* the time.After channel of the goroutine's select has fired
    cpuUsage,      \* monitorLoad's sample, as compared with as.cpuThreshold
    currentWorkers,\* monitorLoad's local currentWorkers
    gops,          \* ghost: scale calls made by each goroutine
    stpc,          \* position of the goroutine that calls Start and Stop
    stopCalls,     \* ghost: number of Stop calls made
    stopReturns,   \* ghost: number of Stop calls that returned
    asPanic,       \* the runtime panic that ended the program, or NoPanic
    \* pkg/retry
    do,            \* the frame of the retry.DoWithContext call: its position, opts,
                   \* the locals backoff, maxBackoff, maxAttempts, attempt, lastErr,
                   \* the state of ctx, the returned error, and ghost fields
                   \* (operation invocations, delays waited, OnRetry calls)
    \* internal/retry
    retry,         \* the frame of the Retry call: its position, opts, the locals
                   \* backoff and attempt, the returned error, and ghost fields
                   \* (operation invocations, delays slept)
    \* rate_limiter (legacy)
    legacy         \* the legacy RateLimiter: capacity, tokens, refillRate,
                   \* refillAmount, lastRefill, the clock time.Now() reads, and
                   \* what the last Allow() returned

jqVars == <<workerCount, started, jobsClosed, jqWg, results, wpc, wjob, wattempt,
            werr, spc, sjob, sAfterClose, mpc, jqPanic, addCount,
            ninv, firstNil, waitCalls, waitReturns, cleanWait,
            rateLimit, sleepLeft, sinceDone, npause, taken, written>>

rlVars == <<rate, capacity, tokens, lastRefillTime, mu, now, cpc, cop, cn, ctxDone,
            rlCalls, granted, fresh, allowLog, crefilled, cstart, cret>>

asVars == <<minWorkers, maxWorkers, pool, stopClosed, asWg, gpc, gtimer, cpuUsage,
            currentWorkers, gops, stpc, stopCalls, stopReturns, asPanic>>

rtVars == <<do, retry>>

lgVars == <<legacy>>

vars == <<jqVars, rlVars, asVars, rtVars, lgVars>>

(***************************************************************************)
(* Bounds                                                                  *)
(***************************************************************************)
MaxWorkers    == 2   \* largest workerCount passed to NewJobQueue
MaxJobs       == 2   \* number of AddJob calls
MaxRetries    == 2   \* largest Retries passed to AddJob
NumSubmitters == 1   \* goroutines calling AddJob
MaxWaits      == 2   \* number of Wait calls
MaxRateLimit  == 2   \* largest rateLimit passed to NewJobQueue, in ticks
MaxRate       == 2   \* largest rate passed to ratelimiter.New
MaxCapacity   == 2   \* largest capacity passed to ratelimiter.New
NumCallers    == 2   \* goroutines calling the limiter
MaxCalls      == 4   \* number of calls made on the limiter
MaxTime       == 3   \* the clock stops here
MaxPool       == 3   \* largest maxWorkers passed to NewAutoScaler
NumScalers    == 2   \* goroutines calling scaleUp / scaleDown themselves
MaxOps        == 2   \* scale calls made by each of them
MaxStops      == 2   \* number of Stop calls
MaxAttempts   == 3   \* largest opts.MaxAttempts passed to Do / DoWithContext
MaxDur        == 12  \* largest InitialBackoff / MaxBackoff, in nanoseconds
MaxLegacyCap  == 3   \* largest capacity passed to NewRateLimiter
MaxRefillRate == 3   \* largest refillRate passed to NewRateLimiter, in ticks
MaxRefillAmount == 2 \* largest refillAmount passed to NewRateLimiter
MaxLegacyTime == 7   \* the clock of the legacy limiter stops here

\* No legacy RateLimiter has been created (the state of the other
\* specifications).
LegacyParked ==
    legacy = [capacity |-> 0, tokens |-> 0, refillRate |-> 0, refillAmount |-> 0,
              lastRefill |-> 0, now |-> 0, ret |-> "none"]

(***************************************************************************)
(* JobQueue                                                                *)
(***************************************************************************)
Absent  == <<"absent">>      \* no entry in jq.results
Nil     == <<"nil">>         \* a nil error
NoPanic == "none"
NoJob   == [id |-> 0, retries |-> 0]

\* The error returned by the k-th invocation of a task: errors of different
\* invocations are distinguishable values.
Err(k) == <<"error", k>>

JobIDs      == 1..MaxJobs
RetryValues == 0..MaxRetries
WorkerIDs   == 0..MaxWorkers          \* goroutine slots; StartWorkers uses 0..workerCount-1
Submitters  == 1..NumSubmitters

\* NewJobQueue(workerCount, rateLimit): the state after construction.
NewJobQueue ==
    /\ workerCount \in 0..MaxWorkers
    /\ started = FALSE
    /\ jobsClosed = FALSE
    /\ jqWg = 0
    /\ results = [id \in JobIDs |-> Absent]
    /\ wpc = [w \in WorkerIDs |-> "none"]
    /\ wjob = [w \in WorkerIDs |-> NoJob]
    /\ wattempt = [w \in WorkerIDs |-> 0]
    /\ werr = [w \in WorkerIDs |-> Nil]
    /\ spc = [s \in Submitters |-> "idle"]
    /\ sjob = [s \in Submitters |-> NoJob]
    /\ sAfterClose = [s \in Submitters |-> FALSE]
    /\ mpc = "idle"
    /\ jqPanic = NoPanic
    /\ addCount = 0
    /\ ninv = [w \in WorkerIDs |-> 0]
    /\ firstNil = [w \in WorkerIDs |-> 0]
    /\ waitCalls = 0
    /\ waitReturns = 0
    /\ cleanWait = FALSE
    /\ rateLimit \in 0..MaxRateLimit
    /\ sleepLeft = [w \in WorkerIDs |-> 0]
    /\ sinceDone = rateLimit
    /\ npause = [w \in WorkerIDs |-> 0]
    /\ taken = [id \in JobIDs |-> 0]
    /\ written = [id \in JobIDs |-> 0]

\* The JobQueue is not in use (the state of the other specifications).
JQParked ==
    /\ NewJobQueue
    /\ workerCount = 0
    /\ rateLimit = 0

Running == jqPanic = NoPanic

\* A step of the JobQueue leaves the other components alone.
JQOnly == UNCHANGED <<rlVars, asVars, rtVars, lgVars>>

\* for i := 0; i < jq.workerCount; i++ { go jq.worker(i) }
SpawnedNone(n) == {}
SpawnedBad(n) == 0..n
Spawned(n) == 0..(n - 1)

StartWorkers ==
    /\ Running /\ ~started
    /\ started' = TRUE
    /\ wpc' = [w \in WorkerIDs |-> IF w \in Spawned(workerCount) THEN "recv" ELSE wpc[w]]
    /\ UNCHANGED <<workerCount, jobsClosed, jqWg, results, wjob, wattempt, werr, spc,
                   sjob, sAfterClose, mpc, jqPanic, addCount, ninv, firstNil, waitCalls, waitReturns, cleanWait>>
    /\ UNCHANGED <<rateLimit, sleepLeft, sinceDone, npause, taken, written>>
    /\ JQOnly

\* AddJob, first statement: jq.wg.Add(1).  The job takes the next unused id.
AddJobCall(s, retries) ==
    /\ Running /\ addCount < MaxJobs
    /\ s \in {x \in Submitters : spc[x] = "idle"}
    /\ \A y \in {x \in Submitters : spc[x] = "idle"} : s <= y
    /\ addCount' = addCount + 1
    /\ jqWg' = jqWg + 1
    /\ sjob' = [sjob EXCEPT ![s] = [id |-> addCount + 1, retries |-> retries]]
    /\ spc' = [spc EXCEPT ![s] = "send"]
    /\ sAfterClose' = [sAfterClose EXCEPT ![s] = jobsClosed]
    /\ cleanWait' = IF waitCalls > 0 THEN FALSE ELSE cleanWait
    /\ UNCHANGED <<workerCount, started, jobsClosed, results, wpc, wjob, wattempt,
                   werr, mpc, jqPanic, ninv, firstNil, waitCalls, waitReturns>>
    /\ UNCHANGED <<rateLimit, sleepLeft, sinceDone, npause, taken, written>>
    /\ JQOnly

\* AddJob, second statement: jq.jobs <- Job{...} on a closed channel panics.
AddJobSendClosed(s) ==
    /\ Running /\ spc[s] = "send" /\ jobsClosed
    /\ jqPanic' = "send on closed channel"
    /\ spc' = [spc EXCEPT ![s] = "panic"]
    /\ UNCHANGED <<workerCount, started, jobsClosed, jqWg, results, wpc, wjob,
                   wattempt, werr, sjob, sAfterClose, mpc, addCount, ninv,
                   firstNil, waitCalls, waitReturns, cleanWait>>
    /\ UNCHANGED <<rateLimit, sleepLeft, sinceDone, npause, taken, written>>
    /\ JQOnly

\* Goroutines of one kind run the same code and are told apart by nothing the
\* program reads (workerID is only printed): among several that could take a
\* step of the same kind, the lowest-numbered one takes it.
LowestBad(S, x) == TRUE
Lowest(S, x) == x \in S /\ \A y \in S : x <= y

\* The loop condition attempt <= retryCount.
LoopCondBad(attempt, retryCount) == attempt < retryCount
LoopCond(attempt, retryCount) == attempt <= retryCount

\* for attempt := 1; attempt <= retryCount; attempt++ : where the worker goes when
\* the condition is evaluated: into job.Task(), or past the loop.
EnterLoop(attempt, retryCount) == IF LoopCond(attempt, retryCount) THEN "task" ELSE "record"

\* The unbuffered channel: the send of AddJob and the receive of a worker's
\* range loop happen together; AddJob returns.  The worker sets attempt := 1
\* and evaluates the loop condition.
WorkerRecv(w, s) ==
    /\ Running /\ spc[s] = "send" /\ ~jobsClosed
    /\ Lowest({x \in WorkerIDs : wpc[x] = "recv"}, w)
    /\ wjob' = [wjob EXCEPT ![w] = sjob[s]]
    /\ wattempt' = [wattempt EXCEPT ![w] = 1]
    /\ werr' = [werr EXCEPT ![w] = Nil]
    /\ wpc' = [wpc EXCEPT ![w] = EnterLoop(1, sjob[s].retries)]
    /\ ninv' = [ninv EXCEPT ![w] = IF EnterLoop(1, sjob[s].retries) = "task" THEN 1 ELSE 0]
    /\ spc' = [spc EXCEPT ![s] = "idle"]
    /\ sjob' = [sjob EXCEPT ![s] = NoJob]
    /\ taken' = [taken EXCEPT ![sjob[s].id] = @ + 1]
    /\ npause' = [npause EXCEPT ![w] = 0]
    /\ UNCHANGED <<workerCount, started, jobsClosed, jqWg, results, sAfterClose, mpc,
                   jqPanic, addCount, firstNil, waitCalls, waitReturns, cleanWait>>
    /\ UNCHANGED <<rateLimit, sleepLeft, sinceDone, written>>
    /\ JQOnly

\* After err = job.Task(): break when err == nil, else sleep the backoff.
AfterTaskBad(r) == "backoff"
AfterTask(r) == IF r = Nil THEN "record" ELSE "backoff"

\* err = job.Task() returns: nil, or the error of this invocation.
WorkerTaskReturn(w, ok) ==
    /\ Running /\ wpc[w] = "task"
    /\ LET r == IF ok THEN Nil ELSE Err(ninv[w])
       IN /\ werr' = [werr EXCEPT ![w] = r]
          /\ wpc' = [wpc EXCEPT ![w] = AfterTask(r)]
          /\ firstNil' = [firstNil EXCEPT ![w] = IF ok /\ @ = 0 THEN ninv[w] ELSE @]
    /\ UNCHANGED <<workerCount, started, jobsClosed, jqWg, results, wjob, wattempt,
                   spc, sjob, sAfterClose, mpc, jqPanic, addCount, ninv, waitCalls, waitReturns, cleanWait>>
    /\ UNCHANGED <<rateLimit, sleepLeft, sinceDone, npause, taken, written>>
    /\ JQOnly

\* The backoff sleep between two attempts is no rate-limit pause.
BackoffPausesBad(n) == n + 1
BackoffPauses(n) == n

\* time.Sleep(500 * time.Millisecond) is over; attempt++; the loop condition
\* is evaluated again.
WorkerBackoffDone(w) ==
    /\ Running /\ wpc[w] = "backoff"
    /\ npause' = [npause EXCEPT ![w] = BackoffPauses(@)]
    /\ wattempt' = [wattempt EXCEPT ![w] = @ + 1]
    /\ wpc' = [wpc EXCEPT ![w] = EnterLoop(wattempt[w] + 1, wjob[w].retries)]
    /\ ninv' = [ninv EXCEPT ![w] =
                   IF EnterLoop(wattempt[w] + 1, wjob[w].retries) = "task" THEN @ + 1 ELSE @]
    /\ UNCHANGED <<workerCount, started, jobsClosed, jqWg, results, wjob, werr, spc,
                   sjob, sAfterClose, mpc, jqPanic, addCount,
                   firstNil, waitCalls, waitReturns, cleanWait>>
    /\ UNCHANGED <<rateLimit, sleepLeft, sinceDone, taken, written>>
    /\ JQOnly

\* jq.results[job.ID] = err
RecordedBad(res, id, err) == IF err = Nil THEN [res EXCEPT ![id] = err] ELSE res
Recorded(res, id, err) == [res EXCEPT ![id] = err]

\* After the result is recorded the worker goes into time.Sleep(jq.rateLimit).
AfterRecordBad(w) == "task"
AfterRecord(w) == "ratesleep"

\* resultsMutex.Lock(); jq.results[job.ID] = err; resultsMutex.Unlock(); the
\* worker enters time.Sleep(jq.rateLimit).
WorkerRecord(w) ==
    /\ Running /\ wpc[w] = "record"
    /\ results' = Recorded(results, wjob[w].id, werr[w])
    /\ wpc' = [wpc EXCEPT ![w] = AfterRecord(w)]
    /\ written' = [written EXCEPT ![wjob[w].id] = @ + 1]
    /\ npause' = [npause EXCEPT ![w] = @ + 1]
    /\ sleepLeft' = [sleepLeft EXCEPT ![w] = rateLimit]
    /\ sinceDone' = 0
    /\ UNCHANGED <<workerCount, started, jobsClosed, jqWg, wjob, wattempt, werr, spc,
                   sjob, sAfterClose, mpc, jqPanic, addCount, ninv, firstNil, waitCalls, waitReturns, cleanWait>>
    /\ UNCHANGED <<rateLimit, taken>>
    /\ JQOnly

\* time.Sleep(jq.rateLimit) returns once the whole duration has passed.
SleepOverBad(w) == TRUE
SleepOver(w) == sleepLeft[w] = 0

\* time.Sleep(jq.rateLimit) is over; jq.wg.Done(); back to the range.
WorkerDone(w) ==
    /\ Running /\ wpc[w] = "ratesleep" /\ SleepOver(w)
    /\ npause' = [npause EXCEPT ![w] = 0]
    /\ jqWg' = jqWg - 1
    /\ wpc' = [wpc EXCEPT ![w] = "recv"]
    /\ wjob' = [wjob EXCEPT ![w] = NoJob]
    /\ wattempt' = [wattempt EXCEPT ![w] = 0]
    /\ werr' = [werr EXCEPT ![w] = Nil]
    /\ ninv' = [ninv EXCEPT ![w] = 0]
    /\ firstNil' = [firstNil EXCEPT ![w] = 0]
    /\ UNCHANGED <<workerCount, started, jobsClosed, results, spc, sjob, sAfterClose,
                   mpc, jqPanic, addCount, waitCalls, waitReturns, cleanWait>>
    /\ UNCHANGED <<rateLimit, sleepLeft, sinceDone, taken, written>>
    /\ JQOnly

\* The range over the closed channel ends: the worker goroutine returns.
WorkerExit(w) ==
    /\ Running /\ jobsClosed
    /\ Lowest({x \in WorkerIDs : wpc[x] = "recv"}, w)
    /\ wpc' = [wpc EXCEPT ![w] = "exited"]
    /\ UNCHANGED <<workerCount, started, jobsClosed, jqWg, results, wjob, wattempt,
                   werr, spc, sjob, sAfterClose, mpc, jqPanic, addCount,
                   ninv, firstNil, waitCalls, waitReturns, cleanWait>>
    /\ UNCHANGED <<rateLimit, sleepLeft, sinceDone, npause, taken, written>>
    /\ JQOnly

\* Wait is called.
WaitCall ==
    /\ Running /\ mpc = "idle" /\ waitCalls < MaxWaits
    /\ mpc' = "wgwait"
    /\ waitCalls' = waitCalls + 1
    /\ cleanWait' = IF waitCalls = 0
                    THEN \A s \in Submitters : spc[s] = "idle"
                    ELSE cleanWait
    /\ UNCHANGED <<workerCount, started, jobsClosed, jqWg, results, wpc, wjob,
                   wattempt, werr, spc, sjob, sAfterClose, jqPanic, addCount,
                   ninv, firstNil, waitReturns>>
    /\ UNCHANGED <<rateLimit, sleepLeft, sinceDone, npause, taken, written>>
    /\ JQOnly

\* jq.wg.Wait() returns once the counter is zero.
WgZeroBad == TRUE
WgZeroOrOne == jqWg <= 1
WgZero == jqWg = 0

WaitWg ==
    /\ Running /\ mpc = "wgwait" /\ WgZero
    /\ mpc' = "close"
    /\ UNCHANGED <<workerCount, started, jobsClosed, jqWg, results, wpc, wjob,
                   wattempt, werr, spc, sjob, sAfterClose, jqPanic, addCount,
                   ninv, firstNil, waitCalls, waitReturns, cleanWait>>
    /\ UNCHANGED <<rateLimit, sleepLeft, sinceDone, npause, taken, written>>
    /\ JQOnly

\* close(jq.jobs); Wait returns.  Closing a closed channel panics.
WaitClose ==
    /\ Running /\ mpc = "close"
    /\ \/ /\ ~jobsClosed
          /\ jobsClosed' = TRUE
          /\ mpc' = "idle"
          /\ waitReturns' = waitReturns + 1
          /\ UNCHANGED jqPanic
       \/ /\ jobsClosed
          /\ jqPanic' = "close of closed channel"
          /\ mpc' = "panic"
          /\ UNCHANGED <<jobsClosed, waitReturns>>
    /\ UNCHANGED <<workerCount, started, jqWg, results, wpc, wjob, wattempt, werr,
                   spc, sjob, sAfterClose, addCount, ninv,
                   firstNil, waitCalls, cleanWait>>
    /\ UNCHANGED <<rateLimit, sleepLeft, sinceDone, npause, taken, written>>
    /\ JQOnly

\* One tick of time passes for every goroutine of the queue: the sleeps in
\* progress get shorter.  (Without a sleep in progress, and rateLimit ticks or
\* more after the last result, a tick changes nothing.)
TickJQ ==
    /\ Running
    /\ (\E w \in WorkerIDs : sleepLeft[w] > 0) \/ sinceDone < rateLimit
    /\ sleepLeft' = [w \in WorkerIDs |-> IF sleepLeft[w] > 0 THEN sleepLeft[w] - 1 ELSE 0]
    /\ sinceDone' = IF sinceDone < rateLimit THEN sinceDone + 1 ELSE sinceDone
    /\ UNCHANGED <<workerCount, started, jobsClosed, jqWg, results, wpc, wjob,
                   wattempt, werr, spc, sjob, sAfterClose, mpc, jqPanic, addCount,
                   ninv, firstNil, waitCalls, waitReturns, cleanWait, rateLimit,
                   npause, taken, written>>
    /\ JQOnly

(***************************************************************************)
(* RateLimiter                                                             *)
(*                                                                         *)
(* The clock is read in ticks and rl.interval is Interval ticks.  Token     *)
(* amounts are counted in units of 1/Interval token, which makes           *)
(* float64(elapsed) / float64(rl.interval) * rl.rate the integer           *)
(* elapsed * rate (the rounding of float64 is not modelled).               *)
(***************************************************************************)
Interval == 2                       \* rl.interval, in ticks

Tok(x) == x * Interval      \* x whole tokens

Callers == 1..NumCallers
NArgs   == {Tok(-1), Tok(1), Tok(2)}   \* arguments n of AllowN / WaitN
Steps   == {1, Interval}    \* how far the clock moves at once

\* if capacity <= 0 { capacity = rate }
DefaultCapacity(r, c) == IF c <= 0 THEN r ELSE c

\* New(rate, interval, capacity): the state after construction.
New ==
    /\ rate \in 1..MaxRate
    /\ \E c \in 0..MaxCapacity : capacity = DefaultCapacity(rate, c)
    /\ tokens = Tok(capacity)
    /\ lastRefillTime = 0
    /\ mu = 0
    /\ now = 0
    /\ cpc = [c \in Callers |-> "idle"]
    /\ cop = [c \in Callers |-> "none"]
    /\ cn = [c \in Callers |-> 0]
    /\ ctxDone = [c \in Callers |-> FALSE]
    /\ rlCalls = 0
    /\ granted = 0
    /\ fresh = TRUE
    /\ allowLog = <<>>
    /\ crefilled = [c \in Callers |-> 0]
    /\ cstart = [c \in Callers |-> 0]
    /\ cret = [c \in Callers |-> "none"]

\* The RateLimiter is not in use (the state of the other specifications).
RLParked ==
    /\ rate = 0 /\ capacity = 0 /\ tokens = 0 /\ lastRefillTime = 0 /\ mu = 0 /\ now = 0
    /\ cpc = [c \in Callers |-> "idle"]
    /\ cop = [c \in Callers |-> "none"]
    /\ cn = [c \in Callers |-> 0]
    /\ ctxDone = [c \in Callers |-> FALSE]
    /\ rlCalls = 0 /\ granted = 0 /\ fresh = FALSE /\ allowLog = <<>>
    /\ crefilled = [c \in Callers |-> 0]
    /\ cstart = [c \in Callers |-> 0]
    /\ cret = [c \in Callers |-> "none"]

\* refill(): the token count after the refill at clock reading t.
RefilledNone(tk, last, t) == tk
Refilled(tk, last, t) ==
    LET tokensToAdd == (t - last) * rate
    IN  IF tokensToAdd > 0
        THEN (IF tk + tokensToAdd > Tok(capacity) THEN Tok(capacity) ELSE tk + tokensToAdd)
        ELSE tk

\* A step of the RateLimiter leaves the other components alone.
RLOnly == UNCHANGED <<jqVars, asVars, rtVars, lgVars>>

\* Time passes.
Tick(d) ==
    /\ now + d <= MaxTime
    /\ now' = now + d
    /\ fresh' = FALSE
    /\ allowLog' = <<>>
    /\ UNCHANGED <<rate, capacity, tokens, lastRefillTime, mu, cpc, cop, cn, ctxDone,
                   rlCalls, granted>>
    /\ UNCHANGED <<crefilled, cstart, cret>>
    /\ RLOnly

\* A call of goroutine c begins.
Begin(c) ==
    /\ cstart' = [cstart EXCEPT ![c] = granted]
    /\ cret' = [cret EXCEPT ![c] = "none"]
    /\ UNCHANGED crefilled

\* A goroutine calls AllowN(n); Allow() is AllowN(1).
AllowNCall(c, n) ==
    /\ Lowest({x \in Callers : cpc[x] = "idle"}, c) /\ rlCalls < MaxCalls
    /\ cpc' = [cpc EXCEPT ![c] = "lock"]
    /\ cop' = [cop EXCEPT ![c] = "AllowN"]
    /\ cn' = [cn EXCEPT ![c] = n]
    /\ rlCalls' = rlCalls + 1
    /\ fresh' = (fresh /\ n = Tok(1))
    /\ allowLog' = IF fresh /\ n = Tok(1) THEN allowLog ELSE <<>>
    /\ UNCHANGED <<rate, capacity, tokens, lastRefillTime, mu, now, ctxDone, granted>>
    /\ Begin(c)
    /\ RLOnly

\* A goroutine calls Available().
AvailableCall(c) ==
    /\ Lowest({x \in Callers : cpc[x] = "idle"}, c) /\ rlCalls < MaxCalls
    /\ cpc' = [cpc EXCEPT ![c] = "lock"]
    /\ cop' = [cop EXCEPT ![c] = "Available"]
    /\ cn' = [cn EXCEPT ![c] = 0]
    /\ rlCalls' = rlCalls + 1
    /\ fresh' = FALSE
    /\ allowLog' = <<>>
    /\ UNCHANGED <<rate, capacity, tokens, lastRefillTime, mu, now, ctxDone, granted>>
    /\ Begin(c)
    /\ RLOnly

\* A goroutine calls WaitN(ctx, n) (Wait(ctx) is WaitN(ctx, 1)).  The fast path
\* calls AllowN(n); ctx can be done before that (Cancel).
WaitNCall(c, n) ==
    /\ Lowest({x \in Callers : cpc[x] = "idle"}, c) /\ rlCalls < MaxCalls
    /\ cpc' = [cpc EXCEPT ![c] = "lock"]
    /\ cop' = [cop EXCEPT ![c] = "WaitN"]
    /\ cn' = [cn EXCEPT ![c] = n]
    /\ ctxDone' = [ctxDone EXCEPT ![c] = FALSE]
    /\ rlCalls' = rlCalls + 1
    /\ fresh' = FALSE
    /\ allowLog' = <<>>
    /\ UNCHANGED <<rate, capacity, tokens, lastRefillTime, mu, now, granted>>
    /\ Begin(c)
    /\ RLOnly

\* The call of goroutine c returns r: its locals are gone.
Return(c, r) ==
    /\ cpc' = [cpc EXCEPT ![c] = "idle"]
    /\ cop' = [cop EXCEPT ![c] = "none"]
    /\ cn' = [cn EXCEPT ![c] = 0]
    /\ ctxDone' = [ctxDone EXCEPT ![c] = FALSE]
    /\ crefilled' = [crefilled EXCEPT ![c] = 0]
    /\ cstart' = [cstart EXCEPT ![c] = 0]
    /\ cret' = [cret EXCEPT ![c] = r]

\* rl.mu.Lock() succeeds when nobody holds the mutex.
MuFreeBad(c) == TRUE
MuFree(c) == mu = 0

\* rl.mu.Lock(); rl.refill()
Lock(c) ==
    /\ cpc[c] = "lock" /\ MuFree(c)
    /\ mu' = c
    /\ tokens' = Refilled(tokens, lastRefillTime, now)
    /\ lastRefillTime' = now
    /\ cpc' = [cpc EXCEPT ![c] = IF cop[c] = "Available" THEN "return" ELSE "check"]
    /\ UNCHANGED <<rate, capacity, now, cop, cn, ctxDone, rlCalls, granted, fresh,
                   allowLog>>
    /\ crefilled' = [crefilled EXCEPT ![c] = tokens']
    /\ UNCHANGED <<cstart, cret>>
    /\ RLOnly

\* Available: return rl.tokens; the deferred Unlock runs.
AvailableReturn(c) ==
    /\ cpc[c] = "return"
    /\ mu' = 0
    /\ Return(c, "value")
    /\ UNCHANGED <<rate, capacity, tokens, lastRefillTime, now, rlCalls, granted,
                   fresh, allowLog>>
    /\ RLOnly

\* if rl.tokens >= n
EnoughBad(tk, n) == tk > n
Enough(tk, n) == tk >= n

\* AllowN: the test rl.tokens >= n holds.
CheckTrue(c) ==
    /\ cpc[c] = "check" /\ Enough(tokens, cn[c])
    /\ cpc' = [cpc EXCEPT ![c] = "dec"]
    /\ UNCHANGED <<rate, capacity, tokens, lastRefillTime, mu, now, cop, cn, ctxDone,
                   rlCalls, granted, fresh, allowLog>>
    /\ UNCHANGED <<crefilled, cstart, cret>>
    /\ RLOnly

\* AllowN: the test fails; return false, the deferred Unlock runs.  In WaitN
\* the caller goes (back) to the select of the slow path.
CheckFalse(c) ==
    /\ cpc[c] = "check" /\ ~Enough(tokens, cn[c])
    /\ mu' = 0
    /\ IF cop[c] = "WaitN"
       THEN /\ cpc' = [cpc EXCEPT ![c] = "select"]
            /\ UNCHANGED <<cop, cn, ctxDone, crefilled, cstart, cret>>
       ELSE Return(c, "false")
    /\ allowLog' = IF fresh THEN Append(allowLog, FALSE) ELSE allowLog
    /\ UNCHANGED <<rate, capacity, tokens, lastRefillTime, now, rlCalls, granted,
                   fresh>>
    /\ RLOnly

\* rl.tokens -= n
ConsumedBad(tk, n) == tk - Tok(1)
Consumed(tk, n) == tk - n

\* AllowN: rl.tokens -= n; return true, the deferred Unlock runs.  WaitN
\* returns nil.
Dec(c) ==
    /\ cpc[c] = "dec"
    /\ tokens' = Consumed(tokens, cn[c])
    /\ mu' = 0
    /\ Return(c, IF cop[c] = "WaitN" THEN "nil" ELSE "true")
    /\ granted' = granted + cn[c]
    /\ allowLog' = IF fresh THEN Append(allowLog, TRUE) ELSE allowLog
    /\ UNCHANGED <<rate, capacity, lastRefillTime, now, rlCalls, fresh>>
    /\ RLOnly

\* The ctx of a WaitN call in progress is canceled or reaches its deadline.
Cancel(c) ==
    /\ cpc[c] # "idle" /\ cop[c] = "WaitN" /\ ~ctxDone[c]
    /\ ctxDone' = [ctxDone EXCEPT ![c] = TRUE]
    /\ UNCHANGED <<rate, capacity, tokens, lastRefillTime, mu, now, cpc, cop, cn,
                   rlCalls, granted, fresh, allowLog>>
    /\ UNCHANGED <<crefilled, cstart, cret>>
    /\ RLOnly

\* <-ctx.Done() is ready once ctx is canceled or past its deadline.
CtxDoneNever(c) == FALSE
CtxDoneBad(c) == TRUE
CtxDone(c) == ctxDone[c]

\* WaitN, select: case <-ctx.Done(): return ctx.Err()
WaitCanceled(c) ==
    /\ cpc[c] = "select" /\ CtxDone(c)
    /\ Return(c, "ctxErr")
    /\ UNCHANGED <<rate, capacity, tokens, lastRefillTime, mu, now, rlCalls, granted,
                   fresh, allowLog>>
    /\ RLOnly

\* WaitN, select: case <-ticker.C: the next AllowN(n) starts.  (A second poll
\* at the same clock reading finds what the first found.)
WaitPoll(c) ==
    /\ cpc[c] = "select"
    /\ cpc' = [cpc EXCEPT ![c] = "lock"]
    /\ UNCHANGED <<rate, capacity, tokens, lastRefillTime, mu, now, cop, cn, ctxDone,
                   rlCalls, granted, fresh, allowLog>>
    /\ UNCHANGED <<crefilled, cstart, cret>>
    /\ RLOnly

\* One goroutine uses the limiter: every method, any argument.
NextRL ==
    \/ \E d \in Steps : Tick(d)
    \/ \E n \in NArgs : AllowNCall(1, n)
    \/ AvailableCall(1)
    \/ \E n \in NArgs \cap Nat : WaitNCall(1, n)
    \/ Lock(1)
    \/ AvailableReturn(1)
    \/ CheckTrue(1)
    \/ CheckFalse(1)
    \/ Dec(1)
    \/ Cancel(1)
    \/ WaitCanceled(1)
    \/ WaitPoll(1)

\* Several goroutines call Allow() / AllowN(n), n > 0, concurrently.
NextRLC ==
    \/ \E d \in Steps : Tick(d)
    \/ \E c \in Callers, n \in NArgs \cap Nat : AllowNCall(c, n)
    \/ \E c \in Callers : Lock(c)
    \/ \E c \in Callers : CheckTrue(c)
    \/ \E c \in Callers : CheckFalse(c)
    \/ \E c \in Callers : Dec(c)

(***************************************************************************)
(* AutoScaler                                                              *)
(*                                                                         *)
(* as.workerPool is a channel of capacity maxWorkers; its length is the    *)
(* pool size.  A send finds a receiver blocked on the channel and hands    *)
(* over to it, or takes a free slot, or blocks; a receive finds a blocked  *)
(* sender (whose value takes the place of the one received), or takes a    *)
(* value, or blocks.  In scaleUp / scaleDown the channel operation is one  *)
(* case of a select whose other case is <-time.After(interval).            *)
(***************************************************************************)
Monitor    == 0
Scalers    == 1..NumScalers
Goroutines == {Monitor} \cup Scalers
Samples    == {"below", "equal", "above"}   \* cpuUsage <, =, > as.cpuThreshold

\* NewAutoScaler(minWorkers, maxWorkers, ...): the constructor sends minWorkers
\* values on the new channel, which it can only with minWorkers <= maxWorkers.
NewAutoScaler ==
    /\ maxWorkers \in 0..MaxPool
    /\ minWorkers \in 0..maxWorkers
    /\ pool = minWorkers
    /\ stopClosed = FALSE
    /\ asWg = 0
    /\ gpc = [g \in Goroutines |-> "idle"]
    /\ gtimer = [g \in Goroutines |-> FALSE]
    /\ cpuUsage = "equal"
    /\ currentWorkers = 0
    /\ gops = [g \in Goroutines |-> 0]
    /\ stpc = "new"
    /\ stopCalls = 0
    /\ stopReturns = 0
    /\ asPanic = NoPanic

\* The AutoScaler is not in use (the state of the other specifications).
ASParked ==
    /\ NewAutoScaler
    /\ maxWorkers = 0

ASRunning == asPanic = NoPanic

\* A step of the AutoScaler leaves the other components alone.
ASOnly == UNCHANGED <<jqVars, rlVars, rtVars, lgVars>>

BlockedSenders   == {g \in Goroutines : gpc[g] = "up_blocked"}
BlockedReceivers == {g \in Goroutines : gpc[g] = "down_blocked"}

\* Start(): go as.monitorLoad()
Start ==
    /\ ASRunning
    /\ stpc = "new"
    /\ stpc' = "started"
    /\ gpc' = [gpc EXCEPT ![Monitor] = "select"]
    /\ UNCHANGED <<minWorkers, maxWorkers, pool, stopClosed, asWg, gtimer, cpuUsage,
                   currentWorkers, gops, stopCalls, stopReturns, asPanic>>
    /\ ASOnly

\* case <-as.stopChan: a receive from the closed channel is ready.
StopReadyNever == FALSE
StopReady == stopClosed

\* monitorLoad, select: <-as.stopChan is ready once the channel is closed;
\* otherwise the default case reads the load and the pool size.
MonitorSelect(sample) ==
    /\ ASRunning
    /\ gpc[Monitor] = "select"
    /\ IF StopReady
       THEN /\ gpc' = [gpc EXCEPT ![Monitor] = "exited"]
            /\ UNCHANGED <<cpuUsage, currentWorkers>>
       ELSE /\ gpc' = [gpc EXCEPT ![Monitor] = "decide"]
            /\ cpuUsage' = sample
            /\ currentWorkers' = pool
    /\ UNCHANGED <<minWorkers, maxWorkers, pool, stopClosed, asWg, gtimer, gops, stpc,
                   stopCalls, stopReturns, asPanic>>
    /\ ASOnly

\* cpuUsage > as.cpuThreshold && currentWorkers < as.maxWorkers
ShouldScaleUpNever(sample, cur) == FALSE
ShouldScaleUpOnEqual(sample, cur) == sample # "below" /\ cur < maxWorkers
ShouldScaleUp(sample, cur) == sample = "above" /\ cur < maxWorkers

\* cpuUsage < as.cpuThreshold && currentWorkers > as.minWorkers
ShouldScaleDownBad(sample, cur) == sample = "below"
ShouldScaleDown(sample, cur) == sample = "below" /\ cur > minWorkers

\* scaleUp / scaleDown is entered: as.wg.Add(1), and the select's timer starts.
EnterScale(g, to) ==
    /\ asWg' = asWg + 1
    /\ gpc' = [gpc EXCEPT ![g] = to]
    /\ gtimer' = [gtimer EXCEPT ![g] = FALSE]
    /\ gops' = [gops EXCEPT ![g] = IF g = Monitor THEN @ ELSE @ + 1]

\* monitorLoad: the if / else if that calls scaleUp or scaleDown, or neither
\* (then time.Sleep(2 * time.Second)).
MonitorDecide ==
    /\ ASRunning
    /\ gpc[Monitor] = "decide"
    /\ IF ShouldScaleUp(cpuUsage, currentWorkers)
       THEN EnterScale(Monitor, "up_select")
       ELSE IF ShouldScaleDown(cpuUsage, currentWorkers)
       THEN EnterScale(Monitor, "down_select")
       ELSE /\ gpc' = [gpc EXCEPT ![Monitor] = "sleep"]
            /\ UNCHANGED <<asWg, gtimer, gops>>
    /\ UNCHANGED <<minWorkers, maxWorkers, pool, stopClosed, cpuUsage, currentWorkers,
                   stpc, stopCalls, stopReturns, asPanic>>
    /\ ASOnly

\* monitorLoad: time.Sleep(2 * time.Second) is over; the loop starts again.
MonitorSleepDone ==
    /\ ASRunning
    /\ gpc[Monitor] = "sleep"
    /\ gpc' = [gpc EXCEPT ![Monitor] = "select"]
    /\ UNCHANGED <<minWorkers, maxWorkers, pool, stopClosed, asWg, gtimer, cpuUsage,
                   currentWorkers, gops, stpc, stopCalls, stopReturns, asPanic>>
    /\ ASOnly

\* A goroutine other than the monitor calls scaleUp().
ScaleUpCall(g) ==
    /\ ASRunning
    /\ g \in Scalers /\ gpc[g] = "idle" /\ gops[g] < MaxOps
    /\ EnterScale(g, "up_select")
    /\ UNCHANGED <<minWorkers, maxWorkers, pool, stopClosed, cpuUsage, currentWorkers,
                   stpc, stopCalls, stopReturns, asPanic>>
    /\ ASOnly

\* A goroutine other than the monitor calls scaleDown().
ScaleDownCall(g) ==
    /\ ASRunning
    /\ g \in Scalers /\ gpc[g] = "idle" /\ gops[g] < MaxOps
    /\ EnterScale(g, "down_select")
    /\ UNCHANGED <<minWorkers, maxWorkers, pool, stopClosed, cpuUsage, currentWorkers,
                   stpc, stopCalls, stopReturns, asPanic>>
    /\ ASOnly

\* The timer of time.After(interval) fires while its goroutine is at the select.
TimerFire(g) ==
    /\ ASRunning
    /\ gpc[g] \in {"up_select", "up_blocked", "down_select", "down_blocked"}
    /\ ~gtimer[g]
    /\ gtimer' = [gtimer EXCEPT ![g] = TRUE]
    /\ UNCHANGED <<minWorkers, maxWorkers, pool, stopClosed, asWg, gpc, cpuUsage,
                   currentWorkers, gops, stpc, stopCalls, stopReturns, asPanic>>
    /\ ASOnly

\* workerPool is make(chan struct{}, maxWorkers): a send finds a free slot
\* while the channel holds fewer than maxWorkers values.
RoomBad(p) == TRUE
Room(p) == p < maxWorkers

\* scaleUp, case as.workerPool <- struct{}{}: the send proceeds.
ScaleUpSend(g) ==
    /\ ASRunning
    /\ gpc[g] = "up_select"
    /\ \/ \E r \in BlockedReceivers :
             /\ gpc' = [gpc EXCEPT ![g] = "return", ![r] = "return"]
             /\ UNCHANGED pool
       \/ /\ BlockedReceivers = {} /\ Room(pool)
          /\ pool' = pool + 1
          /\ gpc' = [gpc EXCEPT ![g] = "return"]
    /\ UNCHANGED <<minWorkers, maxWorkers, stopClosed, asWg, gtimer, cpuUsage,
                   currentWorkers, gops, stpc, stopCalls, stopReturns, asPanic>>
    /\ ASOnly

\* scaleDown, case <-as.workerPool: the receive proceeds.
ScaleDownRecv(g) ==
    /\ ASRunning
    /\ gpc[g] = "down_select"
    /\ \/ \E s \in BlockedSenders :
             /\ gpc' = [gpc EXCEPT ![g] = "return", ![s] = "return"]
             /\ UNCHANGED pool
       \/ /\ BlockedSenders = {} /\ pool > 0
          /\ pool' = pool - 1
          /\ gpc' = [gpc EXCEPT ![g] = "return"]
    /\ UNCHANGED <<minWorkers, maxWorkers, stopClosed, asWg, gtimer, cpuUsage,
                   currentWorkers, gops, stpc, stopCalls, stopReturns, asPanic>>
    /\ ASOnly

\* The select finds no case ready: the goroutine blocks on both channels.
ScaleBlock(g) ==
    /\ ASRunning
    /\ ~gtimer[g]
    /\ \/ /\ gpc[g] = "up_select" /\ BlockedReceivers = {} /\ ~Room(pool)
          /\ gpc' = [gpc EXCEPT ![g] = "up_blocked"]
       \/ /\ gpc[g] = "down_select" /\ BlockedSenders = {} /\ pool = 0
          /\ gpc' = [gpc EXCEPT ![g] = "down_blocked"]
    /\ UNCHANGED <<minWorkers, maxWorkers, pool, stopClosed, asWg, gtimer, cpuUsage,
                   currentWorkers, gops, stpc, stopCalls, stopReturns, asPanic>>
    /\ ASOnly

\* case <-time.After(interval): "Scale-up timed out" / "Scale-down timed out".
ScaleTimeout(g) ==
    /\ ASRunning
    /\ gpc[g] \in {"up_select", "up_blocked", "down_select", "down_blocked"}
    /\ gtimer[g]
    /\ gpc' = [gpc EXCEPT ![g] = "return"]
    /\ UNCHANGED <<minWorkers, maxWorkers, pool, stopClosed, asWg, gtimer, cpuUsage,
                   currentWorkers, gops, stpc, stopCalls, stopReturns, asPanic>>
    /\ ASOnly

\* scaleUp / scaleDown returns: the deferred as.wg.Done() runs.
ScaleReturn(g) ==
    /\ ASRunning
    /\ gpc[g] = "return"
    /\ asWg' = asWg - 1
    /\ gpc' = [gpc EXCEPT ![g] = IF g = Monitor THEN "sleep" ELSE "idle"]
    /\ gtimer' = [gtimer EXCEPT ![g] = FALSE]
    /\ UNCHANGED <<minWorkers, maxWorkers, pool, stopClosed, cpuUsage, currentWorkers,
                   gops, stpc, stopCalls, stopReturns, asPanic>>
    /\ ASOnly

\* Stop(): close(as.stopChan).  Closing a closed channel panics.
StopCall ==
    /\ ASRunning
    /\ stpc \in {"started", "stopped"} /\ stopCalls < MaxStops
    /\ stopCalls' = stopCalls + 1
    /\ \/ /\ ~stopClosed
          /\ stopClosed' = TRUE
          /\ stpc' = "wgwait"
          /\ UNCHANGED asPanic
       \/ /\ stopClosed
          /\ asPanic' = "close of closed channel"
          /\ stpc' = "panic"
          /\ UNCHANGED stopClosed
    /\ UNCHANGED <<minWorkers, maxWorkers, pool, asWg, gpc, gtimer, cpuUsage,
                   currentWorkers, gops, stopReturns>>
    /\ ASOnly

\* Stop(): as.wg.Wait() returns once the counter is zero; Stop returns.
StopReturn ==
    /\ ASRunning
    /\ stpc = "wgwait" /\ asWg = 0
    /\ stpc' = "stopped"
    /\ stopReturns' = stopReturns + 1
    /\ UNCHANGED <<minWorkers, maxWorkers, pool, stopClosed, asWg, gpc, gtimer,
                   cpuUsage, currentWorkers, gops, stopCalls, asPanic>>
    /\ ASOnly

\* The monitoring loop started by Start() is the only caller of scaleUp /
\* scaleDown.  It calls scaleUp only below maxWorkers and scaleDown only above
\* minWorkers >= 0, so its select always finds the channel case ready and it
\* never blocks.
NextAS ==
    \/ Start
    \/ \E s \in Samples : MonitorSelect(s)
    \/ MonitorDecide
    \/ MonitorSleepDone
    \/ TimerFire(Monitor)
    \/ ScaleUpSend(Monitor)
    \/ ScaleDownRecv(Monitor)
    \/ ScaleTimeout(Monitor)
    \/ ScaleReturn(Monitor)
    \/ StopCall
    \/ StopReturn

\* Goroutines call scaleUp and scaleDown concurrently; no monitor runs.
NextASC ==
    \/ \E g \in Scalers : ScaleUpCall(g)
    \/ \E g \in Scalers : ScaleDownCall(g)
    \/ \E g \in Scalers : TimerFire(g)
    \/ \E g \in Scalers : ScaleUpSend(g)
    \/ \E g \in Scalers : ScaleDownRecv(g)
    \/ \E g \in Scalers : ScaleBlock(g)
    \/ \E g \in Scalers : ScaleTimeout(g)
    \/ \E g \in Scalers : ScaleReturn(g)

(***************************************************************************)
(* pkg/retry: Do / DoWithContext                                           *)
(*                                                                         *)
(* Durations are counted in nanoseconds, as time.Duration counts them.     *)
(***************************************************************************)
DefaultMaxAttempts == 3      \* DefaultOptions().MaxAttempts
AttemptValues == -1..MaxAttempts     \* opts.MaxAttempts
Durations     == 1..MaxDur           \* backoff and maxBackoff once the defaults are in

\* No call of DoWithContext has been made.
DoParked ==
    do = [pc |-> "idle", MaxAttempts |-> 0, Jitter |-> FALSE, OnRetry |-> FALSE,
          initial |-> 0, backoff |-> 0, maxBackoff |-> 0, maxAttempts |-> 0,
          attempt |-> 0, lastErr |-> Nil, nextBackoff |-> 0, ctxDone |-> FALSE,
          ret |-> [is |-> "none", msg |-> Nil], invoked |-> 0, sawNil |-> FALSE, delays |-> <<>>,
          calls |-> <<>>, cancelAt |-> "none"]

\* A step of a retry call leaves the other components alone.
RTOnly == UNCHANGED <<jqVars, rlVars, asVars, lgVars>>

\* if maxAttempts <= 0 { maxAttempts = DefaultOptions().MaxAttempts }
OrDefaultBad(v, d) == d
OrDefault(v, d) == IF v <= 0 THEN d ELSE v

\* fmt.Errorf("%w: %v", ErrMaxAttemptsReached, lastErr): errors.Is finds the
\* sentinel; lastErr is in the message only.
MaxAttemptsError(e) == [is |-> "ErrMaxAttemptsReached", msg |-> e]

\* fmt.Errorf("operation canceled...: %w", ctx.Err())
CanceledError(during) == [is |-> "ctx.Err()", msg |-> <<during>>]

\* return nil
NilError == [is |-> "nil", msg |-> Nil]

\* DoWithContext(ctx, opts, operation) is called (Do passes
\* context.Background()): the locals backoff and maxBackoff hold opts' values
\* or, for values <= 0, the defaults (100ms, 10s), so both are positive;
\* maxAttempts is set likewise; the loop starts with attempt = 1.  ctx may be
\* done already.
DoWithContextCall(m, i, mx, j, cb, cd) ==
    /\ do.pc = "idle"
    /\ do' = [do EXCEPT !.pc = "top", !.MaxAttempts = m, !.Jitter = j, !.OnRetry = cb,
                        !.initial = i, !.backoff = i, !.maxBackoff = mx,
                        !.maxAttempts = OrDefault(m, DefaultMaxAttempts),
                        !.attempt = 1, !.ctxDone = cd,
                        !.cancelAt = IF cd THEN "call" ELSE "none"]
    /\ UNCHANGED retry
    /\ RTOnly

\* ctx is canceled or reaches its deadline while the call is in progress.
CtxCancel ==
    /\ do.pc \in {"top", "op", "onretry", "wait"} /\ ~do.ctxDone
    /\ do' = [do EXCEPT !.ctxDone = TRUE, !.cancelAt = do.pc]
    /\ UNCHANGED retry
    /\ RTOnly

\* case <-ctx.Done(): the case is ready once ctx is done.
CtxDoneIgnored == FALSE
CtxDoneReady == do.ctxDone

\* for attempt <= maxAttempts; select { case <-ctx.Done(): return ...; default: }
\* and the operation is invoked.
LoopTop ==
    /\ do.pc = "top"
    /\ do' = IF do.attempt > do.maxAttempts
             THEN [do EXCEPT !.pc = "done", !.ret = MaxAttemptsError(do.lastErr)]
             ELSE IF CtxDoneReady
             THEN [do EXCEPT !.pc = "done", !.ret = CanceledError("before attempt")]
             ELSE [do EXCEPT !.pc = "op", !.invoked = @ + 1]
    /\ UNCHANGED retry
    /\ RTOnly

\* if attempt == maxAttempts
LastAttemptBad(a, m) == FALSE
LastAttempt(a, m) == a = m

\* err := operation(ctx) returns: nil ends the call; otherwise lastErr = err,
\* and the last attempt ends the call with ErrMaxAttemptsReached.
OperationReturn(ok) ==
    /\ do.pc = "op"
    /\ do' = IF ok
             THEN [do EXCEPT !.pc = "done", !.ret = NilError, !.sawNil = TRUE]
             ELSE IF LastAttempt(do.attempt, do.maxAttempts)
             THEN [do EXCEPT !.pc = "done", !.lastErr = Err(do.invoked),
                             !.ret = MaxAttemptsError(Err(do.invoked))]
             ELSE [do EXCEPT !.pc = "onretry", !.lastErr = Err(do.invoked)]
    /\ UNCHANGED retry
    /\ RTOnly

\* rand.Int63n(n): a value in [0, n); it panics for n <= 0.
Int63n(n) == 0..(n - 1)

\* addJitter(duration): duration - rand.Int63n(int64(duration) / 2)
AddJitter(d) == {d - j : j \in Int63n(d \div 2)}

\* calculateBackoff's cap: if nextBackoff > maxBackoff { nextBackoff = maxBackoff }
CappedBad(cur, max) == cur
Capped(cur, max) == IF cur > max THEN max ELSE cur

\* calculateBackoff(currentBackoff, maxBackoff, jitter): the values it can
\* return (none when rand.Int63n panics).
CalculateBackoff(cur, max, jitter) ==
    IF jitter THEN AddJitter(Capped(cur, max)) ELSE {Capped(cur, max)}

\* if opts.OnRetry != nil { opts.OnRetry(attempt, err) }; nextBackoff :=
\* calculateBackoff(backoff, maxBackoff, opts.Jitter); timer :=
\* time.NewTimer(nextBackoff)
OnRetryAndTimer ==
    /\ do.pc = "onretry"
    /\ LET called == IF do.OnRetry
                     THEN Append(do.calls, <<do.attempt, do.lastErr, Len(do.delays)>>)
                     ELSE do.calls
       IN  IF CalculateBackoff(do.backoff, do.maxBackoff, do.Jitter) = {}
           THEN do' = [do EXCEPT !.pc = "panic", !.calls = called]
           ELSE \E nb \in CalculateBackoff(do.backoff, do.maxBackoff, do.Jitter) :
                    do' = [do EXCEPT !.pc = "wait", !.calls = called, !.nextBackoff = nb]
    /\ UNCHANGED retry
    /\ RTOnly

\* select, case <-timer.C: the backoff has been waited; backoff = nextBackoff * 2;
\* attempt++
NextOfBad(nb) == nb
NextOf(nb) == nb * 2

TimerFired ==
    /\ do.pc = "wait"
    /\ do' = [do EXCEPT !.pc = "top", !.delays = Append(@, do.nextBackoff),
                        !.backoff = NextOf(do.nextBackoff), !.attempt = @ + 1]
    /\ UNCHANGED retry
    /\ RTOnly

\* select, case <-ctx.Done(): timer.Stop(); return "operation canceled during
\* backoff"
BackoffCanceled ==
    /\ do.pc = "wait" /\ CtxDoneReady
    /\ do' = [do EXCEPT !.pc = "done", !.ret = CanceledError("during backoff")]
    /\ UNCHANGED retry
    /\ RTOnly

(***************************************************************************)
(* internal/retry: Retry                                                   *)
(***************************************************************************)

\* No call of Retry has been made.
RetryParked ==
    retry = [pc |-> "idle", MaxAttempts |-> 0, InitialBackoff |-> 0, MaxBackoff |-> 0,
             Jitter |-> FALSE, backoff |-> 0, attempt |-> 0,
             ret |-> [is |-> "none", msg |-> Nil], invoked |-> 0, sawNil |-> FALSE,
             delays |-> <<>>]

\* Retry(opts, operation) is called: backoff := opts.InitialBackoff; attempt := 1
RetryCall(m, i, mx, j) ==
    /\ retry.pc = "idle"
    /\ retry' = [retry EXCEPT !.pc = "top", !.MaxAttempts = m, !.InitialBackoff = i,
                              !.MaxBackoff = mx, !.Jitter = j, !.backoff = i,
                              !.attempt = 1]
    /\ UNCHANGED do
    /\ RTOnly

\* for attempt <= opts.MaxAttempts: the operation is invoked; after the loop,
\* return nil.
RetryLoop ==
    /\ retry.pc = "top"
    /\ retry' = IF retry.attempt <= retry.MaxAttempts
                THEN [retry EXCEPT !.pc = "op", !.invoked = @ + 1]
                ELSE [retry EXCEPT !.pc = "done", !.ret = NilError]
    /\ UNCHANGED do
    /\ RTOnly

\* fmt.Errorf("operation failed after %d attempts: %w", attempt, err)
FailedError(e) == [is |-> e, msg |-> <<"operation failed">>]

\* err := operation() returns: nil ends the call; a failure of the last
\* attempt ends it with the wrapped error; otherwise time.Sleep(backoff).
RetryOperationReturn(ok) ==
    /\ retry.pc = "op"
    /\ retry' = IF ok
                THEN [retry EXCEPT !.pc = "done", !.ret = NilError, !.sawNil = TRUE]
                ELSE IF retry.attempt = retry.MaxAttempts
                THEN [retry EXCEPT !.pc = "done", !.ret = FailedError(Err(retry.invoked))]
                ELSE [retry EXCEPT !.pc = "sleep"]
    /\ UNCHANGED do
    /\ RTOnly

\* internal calculateBackoff(currentBackoff, maxBackoff, jitter): nextBackoff :=
\* currentBackoff * 2, cut to maxBackoff, then addJitter (the same function as
\* in pkg/retry); the values it can return (none when rand.Int63n panics).
RetryCalculateBackoff(cur, max, jitter) ==
    IF jitter THEN AddJitter(Capped(cur * 2, max)) ELSE {Capped(cur * 2, max)}

\* time.Sleep(backoff) is over; backoff = calculateBackoff(backoff,
\* opts.MaxBackoff, opts.Jitter); attempt++
RetrySleepDone ==
    /\ retry.pc = "sleep"
    /\ LET slept == Append(retry.delays, retry.backoff)
           nexts == RetryCalculateBackoff(retry.backoff, retry.MaxBackoff, retry.Jitter)
       IN  IF nexts = {}
           THEN retry' = [retry EXCEPT !.pc = "panic", !.delays = slept]
           ELSE \E nb \in nexts :
                    retry' = [retry EXCEPT !.pc = "top", !.delays = slept,
                                          !.backoff = nb, !.attempt = @ + 1]
    /\ UNCHANGED do
    /\ RTOnly

NextIR ==
    \/ /\ retry.pc = "idle"
       /\ \E m \in AttemptValues, i, mx \in Durations, j \in BOOLEAN : RetryCall(m, i, mx, j)
    \/ RetryLoop
    \/ \E ok \in BOOLEAN : RetryOperationReturn(ok)
    \/ RetrySleepDone

NextRT ==
    \/ /\ do.pc = "idle"
       /\ \E m \in AttemptValues, i, mx \in Durations, j, cb, cd \in BOOLEAN :
              DoWithContextCall(m, i, mx, j, cb, cd)
    \/ CtxCancel
    \/ LoopTop
    \/ \E ok \in BOOLEAN : OperationReturn(ok)
    \/ OnRetryAndTimer
    \/ TimerFired
    \/ BackoffCanceled

\* One goroutine calls scaleUp and scaleDown, one call after the other; no
\* monitor runs.
NextASS ==
    \/ ScaleUpCall(1)
    \/ ScaleDownCall(1)
    \/ TimerFire(1)
    \/ ScaleUpSend(1)
    \/ ScaleDownRecv(1)
    \/ ScaleBlock(1)
    \/ ScaleTimeout(1)
    \/ ScaleReturn(1)

NextJQ ==
    \/ StartWorkers
    \/ \E s \in Submitters, r \in RetryValues : AddJobCall(s, r)
    \/ \E s \in Submitters : AddJobSendClosed(s)
    \/ \E w \in WorkerIDs, s \in Submitters : WorkerRecv(w, s)
    \/ \E w \in WorkerIDs, ok \in BOOLEAN : WorkerTaskReturn(w, ok)
    \/ \E w \in WorkerIDs : WorkerBackoffDone(w)
    \/ \E w \in WorkerIDs : WorkerRecord(w)
    \/ \E w \in WorkerIDs : WorkerDone(w)
    \/ \E w \in WorkerIDs : WorkerExit(w)
    \/ WaitCall
    \/ WaitWg
    \/ WaitClose

\* The queue with its pauses left untimed: with rateLimit = 0 every
\* time.Sleep(jq.rateLimit) returns at once, and the worker goes on whenever
\* it is scheduled.
InitJQ == NewJobQueue /\ rateLimit = 0 /\ RLParked /\ ASParked /\ DoParked /\ RetryParked /\ LegacyParked

SpecJQ == InitJQ /\ [][NextJQ]_vars

\* The same queue under the scheduling Go provides: a goroutine that can take
\* a step does take it (every task invocation returns, every sleep ends), and
\* a goroutine blocked in a send is served when a receiver keeps arriving
\* (the channel's queue of senders is first in, first out).
FairJQ ==
    /\ \A w \in WorkerIDs :
           /\ WF_vars(\E ok \in BOOLEAN : WorkerTaskReturn(w, ok))
           /\ WF_vars(WorkerBackoffDone(w))
           /\ WF_vars(WorkerRecord(w))
           /\ WF_vars(WorkerDone(w))
    /\ \A s \in Submitters : SF_vars(\E w \in WorkerIDs : WorkerRecv(w, s))
    /\ WF_vars(WaitWg)
    /\ WF_vars(WaitClose)

SpecJQF == InitJQ /\ [][NextJQ]_vars /\ FairJQ

\* A receive from a closed channel does not block: a worker waiting at the
\* range of the closed jq.jobs leaves its loop.
FairJQX ==
    /\ FairJQ
    /\ \A w \in WorkerIDs : WF_vars(WorkerExit(w))

SpecJQX == InitJQ /\ [][NextJQ]_vars /\ FairJQX

\* One worker, a rate limit of one tick or more, and the clock.
NextJQT ==
    \/ NextJQ
    \/ TickJQ

InitJQT == NewJobQueue /\ workerCount = 1 /\ rateLimit >= 1 /\ RLParked /\ ASParked /\ DoParked /\ RetryParked /\ LegacyParked

SpecJQT == InitJQT /\ [][NextJQT]_vars

InitRL == New /\ JQParked /\ ASParked /\ DoParked /\ RetryParked /\ LegacyParked

SpecRL == InitRL /\ [][NextRL]_vars

SpecRLC == InitRL /\ [][NextRLC]_vars

\* The single caller under the scheduling Go provides: a goroutine that can
\* take a step does take it, and a select that keeps finding <-ctx.Done()
\* ready ends up choosing it (the choice among ready cases is random).
FairRL ==
    /\ WF_vars(Lock(1))
    /\ WF_vars(CheckTrue(1))
    /\ WF_vars(CheckFalse(1))
    /\ WF_vars(Dec(1))
    /\ SF_vars(WaitCanceled(1))

SpecRLF == InitRL /\ [][NextRL]_vars /\ FairRL

\* Time keeps advancing: the clock moves on (up to the bound of the model) and
\* the ticker of a waiting WaitN fires again, so its select takes <-ticker.C.
FairRLW ==
    /\ FairRL
    /\ WF_vars(WaitPoll(1))
    /\ WF_vars(Tick(1))

SpecRLW == InitRL /\ [][NextRL]_vars /\ FairRLW

InitRT == DoParked /\ RetryParked /\ JQParked /\ RLParked /\ ASParked /\ LegacyParked

SpecRT == InitRT /\ [][NextRT]_vars

SpecIR == InitRT /\ [][NextIR]_vars

InitAS == NewAutoScaler /\ JQParked /\ RLParked /\ DoParked /\ RetryParked /\ LegacyParked

SpecAS == InitAS /\ [][NextAS]_vars

SpecASC == InitAS /\ [][NextASC]_vars

SpecASS == InitAS /\ [][NextASS]_vars

\* The monitoring loop under the scheduling Go provides: the goroutine takes
\* the step it can take (the sample, the sleep and the return are not blocking
\* for ever), wg.Wait() returns once the counter is zero, and a select that
\* keeps finding its channel operation ready ends up choosing it (a timer that
\* has fired too leaves the choice to chance).
FairAS ==
    /\ WF_vars(\E s \in Samples : MonitorSelect(s))
    /\ WF_vars(MonitorDecide)
    /\ WF_vars(MonitorSleepDone)
    /\ SF_vars(ScaleUpSend(Monitor))
    /\ SF_vars(ScaleDownRecv(Monitor))
    /\ WF_vars(ScaleReturn(Monitor))
    /\ WF_vars(StopReturn)

SpecASF == InitAS /\ [][NextAS]_vars /\ FairAS

(***************************************************************************)
(* JobQueue: properties                                                    *)
(***************************************************************************)
Recordings == {id \in JobIDs : results[id] # Absent}
Executing  == {w \in WorkerIDs : wpc[w] = "task"}
Holding    == {w \in WorkerIDs : wpc[w] \in {"task", "backoff", "record", "ratesleep"}}

\* C1: once a Wait() that was called after all AddJob calls had returned has
\* passed wg.Wait(), every submitted job (ids 1..addCount, all distinct) has its
\* result recorded and the results table holds exactly addCount entries,
\* whatever mix of succeeding and failing tasks was submitted.
C1_DrainComplete ==
    (cleanWait /\ (mpc = "close" \/ waitReturns >= 1)) =>
        /\ \A id \in 1..addCount : results[id] # Absent
        /\ Cardinality(Recordings) = addCount

\* C1 witness: Wait() has returned after two jobs, one recorded as succeeded
\* and one as failed.
C1_Witness ==
    /\ cleanWait /\ waitReturns >= 1 /\ addCount >= 2
    /\ \E i, j \in JobIDs : results[i] = Nil /\ results[j] \notin {Absent, Nil}

\* C3: at no time are more than workerCount tasks executing.
C3_ConcurrencyBound == Cardinality(Executing) <= workerCount

\* C3 witness: a queue with two workers has two tasks executing at once.
C3_Witness == workerCount >= 2 /\ Cardinality(Executing) = workerCount

\* C4: for a job with Retries = m >= 1 the task is invoked at most m times and
\* never again after its first nil return; the loop is left only after a nil
\* return or m invocations; the recorded result is nil if an invocation
\* succeeded and otherwise the error of the m-th invocation.
C4_RetryCount ==
    \A w \in Holding :
        LET m == wjob[w].retries IN
        m >= 1 =>
            /\ ninv[w] <= m
            /\ firstNil[w] # 0 => ninv[w] = firstNil[w]
            /\ wpc[w] \in {"record", "ratesleep"} => (firstNil[w] # 0 \/ ninv[w] = m)
            /\ wpc[w] = "ratesleep" =>
                   results[wjob[w].id] = (IF firstNil[w] # 0 THEN Nil ELSE Err(m))

\* C4 witness: a job with Retries = 2 failed twice and the second error was
\* recorded.
C4_Witness ==
    \E w \in Holding :
        /\ wpc[w] = "ratesleep" /\ wjob[w].retries = 2
        /\ ninv[w] = 2 /\ firstNil[w] = 0 /\ results[wjob[w].id] = Err(2)

\* C10 (as claimed): an AddJob call made on a closed queue ends by reporting a
\* DispatcherClosed error to its caller, the program goes on, and no result is
\* recorded for the job.
C10_AddJobAfterCloseFails ==
    \A s \in Submitters :
        (sAfterClose[s] /\ spc[s] # "send") =>
            /\ spc[s] = "DispatcherClosed"
            /\ jqPanic = NoPanic
            /\ results[addCount] = Absent

\* C11 (as claimed): every invocation of a job's task, retries included, is
\* preceded by its own pass through the rate-limit pause: while the k-th
\* invocation runs, the worker has made k passes or more for that job.
C11_GatePerAttempt ==
    \A w \in Holding : wpc[w] = "task" => npause[w] >= ninv[w]

\* C11 (amended): the worker makes one rate-limit pause per job, after the
\* result is recorded, however many attempts the job needed; no pause
\* precedes an invocation or separates two attempts.
C11_GatePerJob ==
    \A w \in Holding :
        /\ wpc[w] \in {"task", "backoff", "record"} => npause[w] = 0
        /\ wpc[w] = "ratesleep" => npause[w] = 1

\* C11 witness: a job that needed two attempts is in its single pause.
C11_Witness ==
    \E w \in Holding : wpc[w] = "ratesleep" /\ ninv[w] = 2 /\ npause[w] = 1

\* The workers that hold job id.
HoldersOf(id) == {w \in Holding : wjob[w].id = id}

\* The jobs whose AddJob call has returned.
HandedOver == {id \in 1..addCount : \A s \in Submitters : sjob[s].id # id}

\* C12: every job handed over by AddJob (ids are distinct) was received from
\* the channel exactly once and is held by exactly one worker until its
\* result is written; the entry is written at most once, it is written once
\* the worker has let go of the job, and the task is not invoked after the
\* entry was written.
C12_ExactlyOnce ==
    /\ \A id \in JobIDs :
           /\ taken[id] = (IF id \in HandedOver THEN 1 ELSE 0)
           /\ written[id] <= 1
           /\ Cardinality(HoldersOf(id)) <= 1
           /\ id \in HandedOver => (HoldersOf(id) # {} \/ written[id] = 1)
           /\ (written[id] = 1) <=> (results[id] # Absent)
    /\ \A w \in Holding :
           wpc[w] \in {"task", "backoff", "record"} => written[wjob[w].id] = 0

\* C12 witness: two workers hold two jobs; the entry of one is written while
\* the other job is in its second invocation.
C12_Witness ==
    \E w1, w2 \in Holding :
        /\ w1 # w2 /\ wpc[w1] = "ratesleep" /\ written[wjob[w1].id] = 1
        /\ wpc[w2] = "task" /\ ninv[w2] = 2 /\ written[wjob[w2].id] = 0

\* C15: once StartWorkers has run with workerCount >= 1, every job submitted
\* before any Wait call eventually has its result recorded, and a Wait()
\* called after the AddJob calls returned eventually returns.
C15_EventuallyRecorded ==
    /\ \A id \in JobIDs :
           (started /\ workerCount >= 1 /\ id <= addCount /\ waitCalls = 0)
               ~> (results[id] # Absent)
    /\ (started /\ workerCount >= 1 /\ mpc = "wgwait" /\ waitCalls = 1 /\ cleanWait)
           ~> (waitReturns >= 1)

\* C15 witness: MaxJobs jobs were submitted, all to a started queue with
\* workers, the Wait() called after them is waiting on the counter while a
\* job is still in a worker's hands.
C15_Witness ==
    /\ started /\ workerCount >= 1 /\ addCount = MaxJobs
    /\ mpc = "wgwait" /\ waitCalls = 1 /\ cleanWait
    /\ \E w \in Holding : wpc[w] = "backoff"

\* C16: an AddJob call blocked in its send leaves it only by handing the job
\* to a started worker that was waiting at the channel, which then holds
\* exactly that job (or by the panic of a closed channel); until then the job
\* has been taken by nobody.  So it stays blocked while every worker is busy,
\* and for ever when no worker runs.
C16_SendBlocks ==
    [][\A s \in Submitters :
          spc[s] = "send" =>
              /\ taken[sjob[s].id] = 0
              /\ spc'[s] # "send" =>
                     \/ jobsClosed /\ spc'[s] = "panic"
                     \/ \E w \in Spawned(workerCount) :
                            /\ started /\ wpc[w] = "recv" /\ wpc'[w] # "recv"
                            /\ wjob'[w] = sjob[s] /\ taken'[sjob[s].id] = 1]_vars

\* C16 witness: an AddJob call is blocked while every worker of a started
\* queue is busy with another job.
C16_Witness ==
    \E s \in Submitters :
        /\ spc[s] = "send" /\ started /\ workerCount >= 1 /\ ~jobsClosed
        /\ \A w \in Spawned(workerCount) : w \in Holding

\* C17: with one worker, whenever the task of a job runs, rateLimit ticks or
\* more have passed since the previous job's result was recorded.
C17_PauseElapsed ==
    workerCount = 1 => \A w \in WorkerIDs : wpc[w] = "task" => sinceDone >= rateLimit

\* C17 witness: the single worker runs the task of the second job, with a
\* rate limit of two ticks.
C17_Witness ==
    /\ workerCount = 1 /\ rateLimit >= 2
    /\ \E w \in WorkerIDs : wpc[w] = "task" /\ wjob[w].id = 2 /\ written[1] = 1

\* The queue is closed, no worker holds a job and every AddJob call in
\* progress was made on the closed queue.
Settled ==
    /\ jobsClosed
    /\ Holding = {}
    /\ \A s \in Submitters : spc[s] = "send" => sAfterClose[s]

C33_NilMeansSucceeded ==
    \A w \in Holding :
        (wpc[w] = "ratesleep" /\ results[wjob[w].id] = Nil) => firstNil[w] # 0

\* C36: the attempts of a job are strictly sequential.  A worker enters the
\* task either for the first attempt of the job it has just received, or for
\* the next attempt of the job it holds, and then from the backoff sleep that
\* followed a failed attempt; the backoff is entered only from an attempt
\* that returned an error; the worker keeps the job throughout; and at no
\* time do two workers hold, or execute, the same job.
C36_SequentialAttempts ==
    /\ [](\A id \in JobIDs : Cardinality(HoldersOf(id)) <= 1)
    /\ [][\A w \in WorkerIDs :
            /\ (wpc'[w] = "task" /\ wpc[w] # "task") =>
                   \/ wpc[w] = "recv" /\ ninv'[w] = 1 /\ wattempt'[w] = 1
                   \/ /\ wpc[w] = "backoff" /\ werr[w] # Nil
                      /\ wjob'[w] = wjob[w]
                      /\ ninv'[w] = ninv[w] + 1 /\ wattempt'[w] = wattempt[w] + 1
            /\ (wpc'[w] = "backoff" /\ wpc[w] # "backoff") =>
                   (wpc[w] = "task" /\ werr'[w] = Err(ninv[w]) /\ wjob'[w] = wjob[w])
            /\ wpc[w] = "task" => (ninv'[w] = ninv[w] /\ wjob'[w] = wjob[w])
            /\ wpc[w] \in {"task", "backoff"} => ninv[w] = wattempt[w]]_vars

\* C36 witness: with two workers, one runs the second attempt of its job
\* while the other is in the backoff after the first attempt of another job.
C36_Witness ==
    \E w1, w2 \in Holding :
        /\ wpc[w1] = "task" /\ ninv[w1] = 2 /\ werr[w1] = Err(1)
        /\ wpc[w2] = "backoff" /\ ninv[w2] = 1 /\ wjob[w1].id # wjob[w2].id

\* Every worker goroutine that was started has returned.
AllExited == \A w \in WorkerIDs : wpc[w] \in {"none", "exited"}

C2_TokenBound == 0 <= tokens /\ tokens <= Tok(capacity)

\* C8: over any interleaving of concurrent callers, the tokens granted (the
\* sum of n over the AllowN calls that returned true) never exceed the initial
\* capacity plus the tokens refilled during the elapsed time, rate * elapsed /
\* interval; with no time elapsed they never exceed the capacity.
C8_NoOverGrant == granted <= Tok(capacity) + rate * now

\* C8 witness: one caller is about to take the last tokens while another
\* caller waits for the mutex.
C8_Witness ==
    \E c1, c2 \in Callers :
        /\ c1 # c2 /\ cpc[c1] = "lock" /\ cn[c1] > 0
        /\ cpc[c2] = "dec" /\ cn[c2] > 0 /\ cn[c2] = tokens /\ mu = c2

\* C9: on a fresh limiter, with no time elapsed and only Allow() calls made,
\* the i-th Allow() returned true exactly when i <= capacity.
C9_FirstCapacitySucceed ==
    fresh => \A i \in 1..Len(allowLog) : allowLog[i] = (i <= capacity)

\* C9 witness: capacity + 1 immediate Allow() calls were made on a limiter of
\* capacity 2 or more; the last one failed.
C9_Witness ==
    /\ fresh /\ capacity >= 2 /\ Len(allowLog) = capacity + 1
    /\ ~allowLog[capacity + 1]

\* C13: a WaitN call that returns an error returns it with ctx done, and has
\* taken no token (the bucket is as its last refill left it, nothing was
\* granted to the call); a WaitN call that returns nil has taken exactly n
\* tokens, in the one step that ends it.
C13_WaitOutcome ==
    [][\A c \in Callers :
          (cop[c] = "WaitN" /\ cpc'[c] = "idle") =>
              /\ cret'[c] \in {"ctxErr", "nil"}
              /\ cret'[c] = "ctxErr" =>
                     /\ ctxDone[c]
                     /\ tokens' = crefilled[c] /\ granted' = cstart[c]
              /\ cret'[c] = "nil" =>
                     /\ tokens = crefilled[c] /\ granted = cstart[c]
                     /\ tokens' = tokens - cn[c] /\ granted' = granted + cn[c]]_vars

\* C13 witness: a WaitN call has returned ctx.Err().
C13_Witness == \E c \in Callers : cret[c] = "ctxErr"

\* C14: a WaitN call whose ctx is done returns, even when it asks for more
\* tokens than the bucket can ever hold.
C14_CanceledWaitReturns ==
    \A c \in Callers : (cop[c] = "WaitN" /\ ctxDone[c]) ~> (cpc[c] = "idle")

\* C14 witness: a WaitN call that asks for more than the capacity is blocked
\* in the select of the slow path, and its ctx is done.
C14_Witness ==
    \E c \in Callers :
        cop[c] = "WaitN" /\ cpc[c] = "select" /\ ctxDone[c] /\ cn[c] > Tok(capacity)

\* C18: an AllowN(n) that returns true lowers the token count, as its refill
\* left it, by exactly n; an AllowN(n) that returns false and an Available()
\* leave it as the refill left it; and a refill made with no time elapsed
\* since the last one leaves the count as it was.
C18_ConsumeExactly ==
    [][\A c \in Callers :
          /\ (cop[c] = "AllowN" /\ cpc'[c] = "idle" /\ cret'[c] = "true") =>
                 tokens' = crefilled[c] - cn[c]
          /\ (cop[c] = "AllowN" /\ cpc'[c] = "idle" /\ cret'[c] = "false") =>
                 tokens' = crefilled[c]
          /\ (cop[c] = "Available" /\ cpc'[c] = "idle") => tokens' = crefilled[c]
          /\ (cpc[c] = "lock" /\ cpc'[c] # "lock" /\ lastRefillTime = now) =>
                 tokens' = tokens]_vars

\* C18 witness: an AllowN(2) has returned true and left an empty bucket.
C18_Witness ==
    \E c \in Callers : cret[c] = "true" /\ tokens = 0 /\ granted = Tok(2) /\ now = 0

\* C19 (as claimed): an AllowN(n) call with n greater than the capacity never
\* passes the test rl.tokens >= n, so it never returns true.
C19_OverCapacityFails ==
    \A c \in Callers : (cop[c] = "AllowN" /\ cn[c] > Tok(capacity)) => cpc[c] # "dec"

\* C20 (as claimed): the refill pass of every access sets tokens to
\* min(capacity, tokens + (now - lastRefillTime) / interval * rate) and
\* lastRefillTime to now.
C20_RefillFormula ==
    [][\A c \in Callers :
          (cpc[c] = "lock" /\ cpc'[c] # "lock") =>
              /\ LET sum == tokens + (now - lastRefillTime) * rate
                 IN  tokens' = IF Tok(capacity) <= sum THEN Tok(capacity) ELSE sum
              /\ lastRefillTime' = now]_vars

\* C38 (as claimed): a WaitN(ctx, n) call with n greater than the capacity
\* never finds its n tokens and never returns nil; it returns only with ctx
\* done.
C38_OverCapacityWaitBlocks ==
    /\ [](\A c \in Callers : (cop[c] = "WaitN" /\ cn[c] > Tok(capacity)) => cpc[c] # "dec")
    /\ [][\A c \in Callers :
            (cop[c] = "WaitN" /\ cn[c] > Tok(capacity) /\ cpc'[c] = "idle") =>
                (ctxDone[c] /\ cret'[c] = "ctxErr")]_vars

\* The n tokens of call c are there at clock reading t, by the refill rule.
RefilledBy(c, t) == tokens + (t - lastRefillTime) * rate >= cn[c]

\* C21: with a positive rate, one caller and a ctx that is not canceled, a
\* WaitN(ctx, n) with n <= capacity whose tokens are there before the clock
\* reaches its bound eventually returns nil; and the call is granted only when
\* the bucket, as the refill at the current clock reading left it, holds at
\* least n tokens.
C21_WaitEventuallyNil ==
    /\ \A c \in Callers :
           (/\ cop[c] = "WaitN" /\ ~ctxDone[c] /\ rate > 0
            /\ cn[c] <= Tok(capacity) /\ RefilledBy(c, MaxTime))
               ~> (cret[c] = "nil" \/ ctxDone[c])
    /\ [](\A c \in Callers :
             (cop[c] = "WaitN" /\ cpc[c] = "dec") =>
                 (tokens >= cn[c] /\ tokens = crefilled[c] /\ RefilledBy(c, now)))

\* C21 witness: a WaitN call found too few tokens and waits in the select of
\* the slow path; by now the clock has reached the reading at which the refill
\* gives it its n tokens.
C21_Witness ==
    \E c \in Callers :
        /\ cop[c] = "WaitN" /\ cpc[c] = "select" /\ ~ctxDone[c]
        /\ cn[c] <= Tok(capacity) /\ tokens < cn[c] /\ RefilledBy(c, now)

(***************************************************************************)
(* AutoScaler: properties                                                  *)
(***************************************************************************)

\* C5: with the monitoring loop as the only caller of scaleUp / scaleDown, the
\* pool size stays within [minWorkers, maxWorkers] in every reachable state,
\* whatever the load samples are and whether a scale attempt succeeds or
\* times out.
C5_MonitorBounds == minWorkers <= pool /\ pool <= maxWorkers

\* C5 witness: the monitor sampled a low load with one unit above the
\* minimum, and its scaleDown has just brought the pool to minWorkers.
C5_Witness ==
    /\ gpc[Monitor] = "return" /\ cpuUsage = "below"
    /\ currentWorkers = minWorkers + 1 /\ pool = minWorkers

\* C6 (as claimed): while goroutines call scaleUp and scaleDown concurrently
\* on an AutoScaler that started at minWorkers, the pool size stays between
\* minWorkers and maxWorkers, also once every call has returned.
C6_ConcurrentBounds == minWorkers <= pool /\ pool <= maxWorkers

\* C7 (as claimed): once a Stop() call has returned, no scale operation is in
\* flight or starts, and the pool size never changes again.
C7_QuiescentAfterStop ==
    [][stopReturns >= 1 => (asWg' = 0 /\ pool' = pool)]_vars

\* The step that takes goroutine g out of the select of its scaleUp or
\* scaleDown.
LeavesSelect(g) ==
    /\ gpc[g] \in {"up_select", "up_blocked", "down_select", "down_blocked"}
    /\ gpc'[g] = "return"

\* C22 (as claimed): called one after the other, a scaleUp on a pool below
\* maxWorkers adds exactly one unit and a scaleDown on a pool above minWorkers
\* removes exactly one unit.
C22_SequentialScale ==
    [][(LeavesSelect(1) /\ gpc[1] = "up_select" /\ pool < maxWorkers => pool' = pool + 1)
       /\ (LeavesSelect(1) /\ gpc[1] = "down_select" /\ pool > minWorkers => pool' = pool - 1)]_vars

\* C22 (amended): called one after the other, a scaleUp that reaches its
\* select before its timeout has passed adds exactly one unit to a pool below
\* maxWorkers, and a scaleDown that reaches its select before its timeout has
\* passed removes exactly one unit from a pool above minWorkers; a scaleUp on
\* a pool at maxWorkers blocks, returns only once its timeout has passed, and
\* leaves the size as it was without a panic; no other step of a call changes
\* the size.
C22_SequentialScaleInTime ==
    [][/\ (gpc[1] = "up_select" /\ pool < maxWorkers /\ ~gtimer[1] /\ gpc'[1] # gpc[1])
           => (gpc'[1] = "return" /\ pool' = pool + 1)
       /\ (gpc[1] = "down_select" /\ pool > minWorkers /\ ~gtimer[1] /\ gpc'[1] # gpc[1])
           => (gpc'[1] = "return" /\ pool' = pool - 1)
       /\ (gpc[1] \in {"up_select", "up_blocked"} /\ pool >= maxWorkers)
           => /\ pool' = pool /\ asPanic' = NoPanic
              /\ gpc'[1] \in {"up_select", "up_blocked", "return"}
              /\ gpc'[1] = "return" => gtimer[1]
       /\ ~LeavesSelect(1) => pool' = pool]_vars

\* C22 witness: a scaleUp on a pool already at maxWorkers has timed out and is
\* about to return, after an earlier call changed the size.
C22_Witness ==
    /\ gpc[1] = "return" /\ gtimer[1] /\ pool = maxWorkers /\ pool > minWorkers
    /\ gops[1] = 2

\* The monitor is running and every sample it acts on is s.
Sampling(s) ==
    /\ stpc # "new" /\ ~stopClosed
    /\ gpc[Monitor] = "decide" => cpuUsage = s

\* C23 (as claimed): while every sample is above the threshold the running
\* monitor raises the pool by one on each tick until it is at maxWorkers and
\* then holds it; while every sample is below, it lowers the pool by one on
\* each tick until it is at minWorkers and then holds it.
C23_MonitorConverges ==
    /\ (<>[]Sampling("above") => <>[](pool = maxWorkers))
    /\ (<>[]Sampling("below") => <>[](pool = minWorkers))
    /\ [][((LeavesSelect(Monitor) /\ gpc[Monitor] = "up_select") => pool' = pool + 1)
          /\ ((LeavesSelect(Monitor) /\ gpc[Monitor] = "down_select") => pool' = pool - 1)]_vars

\* C23 (amended): while every sample is above the threshold the running
\* monitor ends up with the pool at maxWorkers and holds it there, and while
\* every sample is below it ends up with the pool at minWorkers and holds it
\* there; a tick moves the pool by one unit, towards maxWorkers on a sample
\* above and towards minWorkers on a sample below, or, when the timeout of
\* its attempt has passed, by one unit or not at all.
C23_MonitorConvergesInTime ==
    /\ (<>[]Sampling("above") => <>[](pool = maxWorkers))
    /\ (<>[]Sampling("below") => <>[](pool = minWorkers))
    /\ [][((LeavesSelect(Monitor) /\ gpc[Monitor] = "up_select") =>
              (/\ cpuUsage = "above" /\ pool < maxWorkers
               /\ (pool' = pool + 1 \/ (gtimer[Monitor] /\ pool' = pool))))
          /\ ((LeavesSelect(Monitor) /\ gpc[Monitor] = "down_select") =>
              (/\ cpuUsage = "below" /\ pool > minWorkers
               /\ (pool' = pool - 1 \/ (gtimer[Monitor] /\ pool' = pool))))
          /\ (~LeavesSelect(Monitor) => pool' = pool)]_vars

\* C23 witness: the monitor has raised the pool to maxWorkers, has sampled a
\* load above the threshold again and sleeps without a scale attempt.
C23_Witness ==
    /\ gpc[Monitor] = "sleep" /\ ~stopClosed /\ cpuUsage = "above"
    /\ currentWorkers = maxWorkers /\ pool = maxWorkers /\ pool >= minWorkers + 2

\* C24: after Start(), the one call of Stop() returns, and the monitoring
\* goroutine exits, wherever in its tick (sampling, inside a scale attempt,
\* sleeping) it was when Stop() closed the channel.  (A second Stop() panics in
\* close and ends the program.)
C24_StopReturns ==
    /\ (stpc = "wgwait") ~> (stpc = "stopped")
    /\ stopClosed ~> (gpc[Monitor] = "exited" \/ stopCalls > 1)

\* C24 witness: Stop() has closed the channel and waits in wg.Wait() while the
\* monitor is inside a scale attempt.
C24_Witness ==
    /\ stpc = "wgwait" /\ stopCalls = 1 /\ asWg = 1
    /\ gpc[Monitor] \in {"up_select", "down_select"}

\* C34 (as claimed): over any sequence of calls, Wait() closes the job channel
\* at most once and Stop() closes the stop channel at most once: no call of
\* either ends in the panic of closing a closed channel, and every Stop()
\* call made after a Stop() returned is one that returns like the first.
C34_RepeatableShutdown ==
    /\ jqPanic # "close of closed channel"
    /\ asPanic # "close of closed channel"
    /\ mpc # "panic"
    /\ stpc # "panic"

\* C35: when the monitor decides on its sample it enters scaleUp exactly when
\* the sample is above the threshold and the size it read is below
\* maxWorkers, enters scaleDown exactly when the sample is below the
\* threshold and the size is above minWorkers, and otherwise (a sample equal
\* to the threshold included) goes to its sleep with nothing changed; the
\* pool changes only in the select of that one attempt, by one unit, and not
\* again before the next sample.
C35_TickDecision ==
    [][/\ (gpc[Monitor] = "decide" /\ gpc'[Monitor] # "decide") =>
              /\ gpc'[Monitor] \in {"up_select", "down_select", "sleep"}
              /\ (gpc'[Monitor] = "up_select") <=>
                     (cpuUsage = "above" /\ currentWorkers < maxWorkers)
              /\ (gpc'[Monitor] = "down_select") <=>
                     (cpuUsage = "below" /\ currentWorkers > minWorkers)
              /\ currentWorkers = pool
              /\ pool' = pool
              /\ (gpc'[Monitor] = "sleep") => (asWg' = asWg)
       /\ (pool' # pool) =>
              /\ gpc[Monitor] \in {"up_select", "down_select"}
              /\ gpc'[Monitor] = "return"
              /\ pool' = (IF gpc[Monitor] = "up_select" THEN pool + 1 ELSE pool - 1)
       /\ (gpc[Monitor] = "return" /\ gpc'[Monitor] # "return") =>
              gpc'[Monitor] = "sleep"]_vars

\* C35 witness: with the pool strictly between the bounds the monitor read a
\* sample equal to the threshold and went to sleep without a scale attempt.
C35_Witness ==
    /\ gpc[Monitor] = "sleep" /\ cpuUsage = "equal" /\ asWg = 0
    /\ minWorkers < currentWorkers /\ currentWorkers < maxWorkers
    /\ pool = currentWorkers

(***************************************************************************)
(* pkg/retry: properties                                                   *)
(***************************************************************************)

\* C25: with MaxAttempts = m >= 1 and a ctx that is not canceled, the
\* operation is invoked at most m times and never again after its first nil
\* return; the call returns nil exactly when an invocation returned nil, and
\* otherwise it returns, after exactly m invocations, an error for which
\* errors.Is(err, ErrMaxAttemptsReached) holds.
C25_DoAttempts ==
    (do.MaxAttempts >= 1 /\ ~do.ctxDone) =>
        /\ do.invoked <= do.MaxAttempts
        /\ do.sawNil => (do.pc = "done" /\ do.ret = NilError)
        /\ do.pc = "done" =>
               /\ do.ret = NilError <=> do.sawNil
               /\ ~do.sawNil =>
                      /\ do.invoked = do.MaxAttempts
                      /\ do.ret.is = "ErrMaxAttemptsReached"
               /\ do.invoked = do.attempt
        /\ do.pc \in {"op", "onretry", "wait"} => do.invoked = do.attempt

\* C25 witness: a call with MaxAttempts = 3 has returned ErrMaxAttemptsReached
\* after three failed invocations.
C25_Witness ==
    /\ do.pc = "done" /\ do.MaxAttempts = 3 /\ ~do.ctxDone
    /\ do.invoked = 3 /\ do.ret = MaxAttemptsError(Err(3))

\* The nominal delay after the k-th failed attempt:
\* min(InitialBackoff * 2^(k-1), MaxBackoff).
Nominal(k) ==
    IF do.initial * 2^(k - 1) < do.maxBackoff THEN do.initial * 2^(k - 1)
    ELSE do.maxBackoff

\* C26: with Jitter = false the delay waited after the k-th failed attempt,
\* 1 <= k < MaxAttempts, is exactly min(InitialBackoff * 2^(k-1), MaxBackoff).
C26_DelayNoJitter ==
    ~do.Jitter =>
        /\ Len(do.delays) < do.maxAttempts \/ do.pc = "idle"
        /\ \A k \in 1..Len(do.delays) : do.delays[k] = Nominal(k)
        /\ do.pc = "wait" => do.nextBackoff = Nominal(do.attempt)

\* C26 witness: without jitter two delays were waited, the second one longer
\* than the first and cut to MaxBackoff.
C26_Witness ==
    /\ ~do.Jitter /\ Len(do.delays) = 2
    /\ do.delays[1] < do.delays[2] /\ do.delays[2] < 2 * do.delays[1]
    /\ do.delays[2] = do.maxBackoff

\* C28 (as claimed): with Jitter enabled, the delay waited after the k-th
\* failed attempt lies in [D_k / 2, D_k], where D_k = min(InitialBackoff *
\* 2^(k-1), MaxBackoff) is the nominal delay of that attempt.
C28_JitterWithinNominal ==
    do.Jitter =>
        \A k \in 1..Len(do.delays) :
            2 * do.delays[k] >= Nominal(k) /\ do.delays[k] <= Nominal(k)

\* C29 (as claimed): for every positive currentBackoff and maxBackoff, down to
\* 1ns, calculateBackoff(currentBackoff, maxBackoff, true) returns a value
\* between 50% and 100% of min(currentBackoff, maxBackoff), and so does
\* addJitter(d) for d: the call made after a failed attempt returns, and what
\* it returns is in that range.
C29_JitterRange ==
    (do.Jitter /\ do.pc \in {"wait", "panic"}) =>
        /\ do.pc = "wait"
        /\ 2 * do.nextBackoff >= Capped(do.backoff, do.maxBackoff)
        /\ do.nextBackoff <= Capped(do.backoff, do.maxBackoff)

\* C30: OnRetry is called once after each failed attempt except the last: the
\* k-th call carries attempt number k and the error of the k-th invocation,
\* and is made when k - 1 backoff waits have passed, that is before the wait
\* that precedes attempt k + 1; a call in which every attempt failed has made
\* exactly maxAttempts - 1 calls of OnRetry when it returns, and after an
\* attempt that succeeded OnRetry is not called (the calls are those of the
\* failed attempts before it).
C30_OnRetryCalls ==
    /\ \A k \in 1..Len(do.calls) : do.calls[k] = <<k, Err(k), k - 1>>
    /\ Len(do.calls) <= do.maxAttempts - 1 \/ do.pc = "idle"
    /\ (do.OnRetry /\ do.pc = "done" /\ do.ret.is = "ErrMaxAttemptsReached") =>
           Len(do.calls) = do.maxAttempts - 1
    /\ (do.OnRetry /\ do.sawNil) => Len(do.calls) = do.invoked - 1
    /\ ~do.OnRetry => do.calls = << >>

\* C30 witness: a call with MaxAttempts = 3 and an OnRetry callback has
\* returned ErrMaxAttemptsReached after OnRetry(1, err1) and OnRetry(2, err2).
C30_Witness ==
    /\ do.pc = "done"
    /\ do.OnRetry
    /\ do.MaxAttempts = 3
    /\ do.ret = MaxAttemptsError(Err(3))
    /\ do.calls = <<<<1, Err(1), 0>>, <<2, Err(2), 1>>>>

\* C31: a call whose ctx is done when DoWithContext is called never invokes
\* the operation; a call whose ctx becomes done during a backoff wait starts
\* no other attempt (it is never again in the operation); in both cases the
\* call returns an error that wraps ctx.Err(), and fewer than maxAttempts
\* invocations were made.
C31_Canceled ==
    /\ do.cancelAt = "call" =>
           /\ do.invoked = 0
           /\ do.pc \in {"top", "done"}
    /\ do.cancelAt = "wait" =>
           /\ do.pc \in {"wait", "top", "done"}
           /\ do.invoked \in {do.attempt, do.attempt - 1}
    /\ (do.cancelAt \in {"call", "wait"} /\ do.pc = "done") =>
           /\ do.ret.is = "ctx.Err()"
           /\ do.invoked < do.maxAttempts
           /\ ~do.sawNil

\* C31 witness: a call with MaxAttempts = 3 whose ctx was canceled during the
\* first backoff wait has returned the cancellation after one invocation.
C31_Witness ==
    /\ do.pc = "done"
    /\ do.cancelAt = "wait"
    /\ do.MaxAttempts = 3
    /\ do.invoked = 1
    /\ do.ret.is = "ctx.Err()"

(***************************************************************************)
(* internal/retry: properties                                              *)
(***************************************************************************)

\* C27 (as claimed): in Retry with Jitter = false the delays slept between the
\* successive attempts of one call are non-decreasing and none of them exceeds
\* MaxBackoff, for every InitialBackoff > 0 and MaxBackoff > 0.
C27_RetryDelaysMonotone ==
    ~retry.Jitter =>
        /\ \A k \in 1..Len(retry.delays) : retry.delays[k] <= retry.MaxBackoff
        /\ \A k \in 1..(Len(retry.delays) - 1) : retry.delays[k] <= retry.delays[k + 1]
\* C37 (as claimed): for every MaxAttempts value, Retry returns nil only if an
\* invocation of the operation returned nil; when it returns an error the
\* operation was invoked exactly MaxAttempts times and the error wraps that
\* of the last invocation.
C37_RetryNilMeansSucceeded ==
    retry.pc = "done" =>
        /\ retry.ret = NilError => retry.sawNil
        /\ retry.ret # NilError =>
               /\ retry.invoked = retry.MaxAttempts
               /\ retry.ret = FailedError(Err(retry.invoked))

(***************************************************************************)
(* rate_limiter (legacy): RateLimiter                                      *)
(*                                                                         *)
(* Allow() holds rl.lock from its first statement to its return, so a call *)
(* is one step for every other caller.  The clock and refillRate are in    *)
(* ticks; time.Now() is monotonic, so elapsed is never negative.           *)
(***************************************************************************)

\* NewRateLimiter(capacity, refillRate, refillAmount): the bucket starts full
\* and lastRefill is the time of construction.
NewRateLimiter(c, r, a) ==
    [capacity |-> c, tokens |-> c, refillRate |-> r, refillAmount |-> a,
     lastRefill |-> 0, now |-> 0, ret |-> "none"]

\* A step of the legacy limiter leaves the other components alone.
LGOnly == UNCHANGED <<jqVars, rlVars, asVars, rtVars>>

\* min returns the minimum of two integers.
min(a, b) == IF a < b THEN a ELSE b

\* tokensToAdd := int(elapsed/rl.refillRate) * rl.refillAmount
TokensToAddOnce(rl, elapsed) == rl.refillAmount
TokensToAdd(rl, elapsed) == (elapsed \div rl.refillRate) * rl.refillAmount

\* refillTokens(): the limiter after the refill at the clock reading rl.now.
refillTokens(rl) ==
    LET elapsed == rl.now - rl.lastRefill
    IN  IF elapsed >= rl.refillRate
        THEN [rl EXCEPT !.tokens = min(rl.capacity, rl.tokens + TokensToAdd(rl, elapsed)),
                        !.lastRefill = rl.now]
        ELSE rl

\* Allow(): under the lock, refillTokens(); then a token is taken when there
\* is one.
Allow ==
    /\ legacy' = LET rl == refillTokens(legacy)
                 IN  IF rl.tokens > 0
                     THEN [rl EXCEPT !.tokens = @ - 1, !.ret = "true"]
                     ELSE [rl EXCEPT !.ret = "false"]
    /\ LGOnly

\* One tick of time passes.
LegacyTick ==
    /\ legacy.now < MaxLegacyTime
    /\ legacy' = [legacy EXCEPT !.now = @ + 1]
    /\ LGOnly

NextLG ==
    \/ Allow
    \/ LegacyTick

\* A limiter with a capacity of zero or more, a positive refillRate and a
\* refillAmount of zero or more.
InitLG ==
    /\ \E c \in 0..MaxLegacyCap, r \in 1..MaxRefillRate, a \in 0..MaxRefillAmount :
           legacy = NewRateLimiter(c, r, a)
    /\ JQParked /\ RLParked /\ ASParked /\ DoParked /\ RetryParked

SpecLG == InitLG /\ [][NextLG]_vars

(***************************************************************************)
(* rate_limiter (legacy): properties                                       *)
(***************************************************************************)

====
